---- MODULE Spec2Model ----
(***************************************************************************)
(* A model of mvc/converter.py: ConverterInfo (output size guess and        *)
(* finalize), FFmpegConverterInfoBase (the ffmpeg status line parser) and   *)
(* ConverterManager (the converter registry).                               *)
(*                                                                          *)
(* Python's None is the string "None".  Text is a sequence of one-character *)
(* strings.  Each component has its own specification (SpecGuess,           *)
(* SpecFinalize, SpecStatus, SpecRegistry); the variables of the other      *)
(* components stay at their idle values.                                    *)
(***************************************************************************)
EXTENDS Integers, Sequences, FiniteSets

VARIABLES
    bitrate,        \* ConverterInfo.bitrate of the profile asked for a guess
    duration,       \* video.duration of the source
    size_guess,     \* what get_output_size_guess returned (Uncalled before)
    media_type,     \* ConverterInfo.media_type of the profile being finalized
    extension,      \* ConverterInfo.extension of the profile being finalized
    same_path,      \* temp_output and output are one path
    link,           \* "hard": temp_output and output are two names of one
                    \* file; "symlink": output is a symbolic link to
                    \* temp_output; else "none"
    temp_path_ok,   \* the os calls take temp_output: a str with no NUL byte,
                    \* or a unicode the file system encoding can encode
    output_path_ok, \* the os calls take output
    temp_exists,    \* the name temp_output exists
    output_exists,  \* the name output exists (os.path.lexists)
    calls,          \* one record per finished call finalize(temp_output, output)
    status_line,    \* the status line last given to process_status_line
    status,         \* the outcome of process_status_line(status_line)
    converters,     \* ConverterManager.converters: identifier -> converter
    brand_map,      \* ConverterManager.brand_map: brand -> list of converters
    brand_rmap,     \* ConverterManager.brand_rmap: converter -> brand
    basicconverters, \* the list mvc.basicconverters.converters
    inserted,       \* history: the converters given to add_converter, in order
    named,          \* history: the brands named by the entries loaded
    last_call,      \* history: the last call made on the manager
    ops             \* the number of calls made on the manager

None == "None"

(***************************************************************************)
(* Bounds of the model.                                                     *)
(***************************************************************************)
MaxBitrate == 8
MaxDuration == 4
MaxCalls == 2
MaxOps == 3
MaxUnits == 2

(***************************************************************************)
(* Numbers.  A Python number is [ty, n64]: ty is "int" or "float" and the   *)
(* value is n64/64; None is [ty |-> "None", n64 |-> 0].  The floats of the  *)
(* model are multiples of 1/8, so that a product with an int and a division *)
(* by 8 are exact, as they are in binary floating point.                    *)
(***************************************************************************)
PyNone == [ty |-> None, n64 |-> 0]
\* The value of size_guess before get_output_size_guess has been called.
Uncalled == [ty |-> "uncalled", n64 |-> 0]
PyInt(n) == [ty |-> "int", n64 |-> 64 * n]
PyFloat8(k) == [ty |-> "float", n64 |-> 8 * k]

\* Python truth value of a number or None: None, 0 and 0.0 are false.
Truthy(x) == x.ty # None /\ x.n64 # 0

\* x * y, for numbers of which at least one is an int.
PyMul(x, y) ==
    [ty |-> IF x.ty = "int" /\ y.ty = "int" THEN "int" ELSE "float",
     n64 |-> (x.n64 * y.n64) \div 64]

\* x / 8 in Python 2: floor division of two ints, true division of a float.
PyDiv8(x) ==
    IF x.ty = "int"
    THEN [ty |-> "int", n64 |-> 64 * ((x.n64 \div 64) \div 8)]
    ELSE [ty |-> "float", n64 |-> x.n64 \div 8]

Bitrates == {PyNone} \cup {PyInt(n) : n \in 0..MaxBitrate}
Durations ==
    {PyNone} \cup {PyInt(n) : n \in 0..MaxDuration}
             \cup {PyFloat8(4 * k) : k \in 0..(2 * MaxDuration)}

(***************************************************************************)
(* ConverterInfo.get_output_size_guess                                      *)
(***************************************************************************)
get_output_size_guess(b, d) ==
    IF ~Truthy(b) \/ ~Truthy(d)
    THEN PyNone
    ELSE PyDiv8(PyMul(b, d))

(***************************************************************************)
(* Text: str.startswith, substring search, str.split(':') and float().      *)
(***************************************************************************)
Digits == <<"0", "1", "2", "3", "4", "5", "6", "7", "8", "9">>
UpperCase == <<"A", "B", "C", "D", "E", "F", "G", "H", "I", "J", "K", "L", "M",
               "N", "O", "P", "Q", "R", "S", "T", "U", "V", "W", "X", "Y", "Z">>
LowerCase == <<"a", "b", "c", "d", "e", "f", "g", "h", "i", "j", "k", "l", "m",
               "n", "o", "p", "q", "r", "s", "t", "u", "v", "w", "x", "y", "z">>

Range(f) == {f[i] : i \in DOMAIN f}
IsDigit(c) == c \in Range(Digits)
\* int(c) for a digit c.
DigitValue(c) == (CHOOSE i \in DOMAIN Digits : Digits[i] = c) - 1
\* \w of Python's re: a letter, a digit or the underscore.
IsWordChar(c) ==
    c \in Range(Digits) \cup Range(UpperCase) \cup Range(LowerCase) \cup {"_"}

\* s[i:i+len(p)] == p (positions from 1).
OccursAt(p, s, i) ==
    /\ i >= 1
    /\ i + Len(p) - 1 <= Len(s)
    /\ \A k \in 1..Len(p) : s[i + k - 1] = p[k]

\* s.startswith(p)
startswith(s, p) == OccursAt(p, s, 1)

\* The positions at or after `from` where p occurs in s.
Occurrences(p, s, from) == {i \in from..(Len(s) - Len(p) + 1) : OccursAt(p, s, i)}

\* s[i:] (positions from 1).
Tail_from(s, i) == SubSeq(s, i, Len(s))

\* s.split(':')
RECURSIVE split_colon(_)
split_colon(s) ==
    LET cuts == {i \in 1..Len(s) : s[i] = ":"} IN
    IF cuts = {}
    THEN <<s>>
    ELSE LET i == CHOOSE c \in cuts : \A d \in cuts : c <= d IN
         <<SubSeq(s, 1, i - 1)>> \o split_colon(Tail_from(s, i + 1))

\* c.lower()
lower(c) ==
    IF c \in Range(UpperCase)
    THEN LowerCase[CHOOSE i \in DOMAIN UpperCase : UpperCase[i] = c]
    ELSE c

AllDigits(s) == \A i \in 1..Len(s) : IsDigit(s[i])

(***************************************************************************)
(* Floats.  A float is [kind, neg, digits, exp]: kind is "finite", "inf" or *)
(* "nan"; a finite one is (-1)^neg * digits * 10^exp, digits being a        *)
(* natural number written as a sequence of 0..9 with no zero at either end  *)
(* (<<>> is zero, which keeps its sign).  Every double is such a decimal;   *)
(* Round gives the double nearest to a decimal, ties to even, as float()    *)
(* and each operation on floats do.                                         *)
(***************************************************************************)
Dec(kind, neg, digits, exp) ==
    [kind |-> kind, neg |-> neg, digits |-> digits, exp |-> exp]
DecInf(neg) == Dec("inf", neg, <<>>, 0)
DecNaN == Dec("nan", FALSE, <<>>, 0)
DecZero(neg) == Dec("finite", neg, <<>>, 0)

\* A double is m * 2^e with m < 2^53 and e in MinBinaryExponent ..
\* MaxBinaryExponent.
MaxBinaryExponent == 971
MinBinaryExponent == -1074
\* 10^MaxOrder is above every double; 10^(MinOrder - 1) is below half the
\* least one.
MaxOrder == 309
MinOrder == -323
\* The exponent of a literal is read to this many digits after its leading
\* zeros; a longer one counts as MaxAbsExp (dtoa.c).
MaxExponentDigits == 9
MaxAbsExp == 1100000000
\* A literal of more digits than this, leading zeros aside, or of more digits
\* after the point, is no float (dtoa.c).
MaxDigits == 1000000000

Front(d) == SubSeq(d, 1, Len(d) - 1)
Zeros(n) == [i \in 1..(IF n < 0 THEN 0 ELSE n) |-> 0]

\* 0.a < 0.b, for sequences of digits; for two of one length, a < b.
FracLess(a, b) ==
    LET n == IF Len(a) < Len(b) THEN Len(b) ELSE Len(a)
        a1 == a \o Zeros(n - Len(a))
        b1 == b \o Zeros(n - Len(b))
    IN
    /\ a1 # b1
    /\ LET i == CHOOSE k \in 1..n :
                    a1[k] # b1[k] /\ \A j \in 1..(k - 1) : a1[j] = b1[j]
       IN a1[i] < b1[i]

\* d without its leading zeros.
NatStrip(d) ==
    IF \A i \in 1..Len(d) : d[i] = 0 THEN <<>>
    ELSE LET i == CHOOSE k \in 1..Len(d) :
                      d[k] # 0 /\ \A j \in 1..(k - 1) : d[j] = 0
         IN SubSeq(d, i, Len(d))

\* The number of zeros that end d, which holds a digit that is not 0.
TrailingZeros(d) ==
    CHOOSE k \in 0..(Len(d) - 1) :
        d[Len(d) - k] # 0 /\ \A j \in 0..(k - 1) : d[Len(d) - j] = 0

\* The digits of the int n >= 0.
RECURSIVE NatOfInt(_)
NatOfInt(n) == IF n = 0 THEN <<>> ELSE NatOfInt(n \div 10) \o <<n % 10>>

\* The int of the digits d.
RECURSIVE nat_value(_)
nat_value(d) == IF d = <<>> THEN 0 ELSE 10 * nat_value(Front(d)) + d[Len(d)]

\* k^n
RECURSIVE Pow(_, _)
Pow(k, n) == IF n = 0 THEN 1 ELSE k * Pow(k, n - 1)

\* The digit of d at place i, 0 where d has none.
Dig(d, i) == IF i < 1 \/ i > Len(d) THEN 0 ELSE d[i]

\* The int of the t digits of d after place i.
RECURSIVE Window(_, _, _)
Window(d, i, t) ==
    IF t = 0 THEN 0 ELSE 10 * Window(d, i, t - 1) + Dig(d, i + t)

\* The digits of d * k, for an int k that divides 10^w: what the places
\* after a place carry into it is then decided by the w digits after it.
MulLocal(d, k, w) ==
    SubSeq([r \in 1..(Len(d) + w) |->
               (k * Dig(d, r - w) + (k * Window(d, r - w, w)) \div Pow(10, w))
                   % 10],
           1, Len(d) + w)

\* The digits of a + b: a place receives a carry where a place after it
\* overflows and every place between the two holds 9.
NatAdd(a, b) ==
    LET n == (IF Len(a) < Len(b) THEN Len(b) ELSE Len(a)) + 1
        t(i) == Dig(a, i - (n - Len(a))) + Dig(b, i - (n - Len(b)))
        carry(i) == IF \E j \in (i + 1)..n :
                           t(j) >= 10 /\ \A m \in (i + 1)..(j - 1) : t(m) = 9
                    THEN 1 ELSE 0
    IN SubSeq([i \in 1..n |-> (t(i) + carry(i)) % 10], 1, n)

\* The digits of a - b, for a >= b: a place lends where a place after it
\* falls short and every place between the two is even.
NatSub(a, b) ==
    LET n == IF Len(a) < Len(b) THEN Len(b) ELSE Len(a)
        x(i) == Dig(a, i - (n - Len(a)))
        y(i) == Dig(b, i - (n - Len(b)))
        borrow(i) == IF \E j \in (i + 1)..n :
                            x(j) < y(j) /\ \A m \in (i + 1)..(j - 1) : x(m) = y(m)
                     THEN 1 ELSE 0
    IN SubSeq([i \in 1..n |-> (x(i) - y(i) - borrow(i) + 10) % 10], 1, n)

\* The digits of d * c, for a digit c.
MulDigit(d, c) ==
    LET part(bit, w) == IF (c \div bit) % 2 = 1
                        THEN (IF w = 0 THEN d ELSE MulLocal(d, bit, w))
                        ELSE <<>>
    IN NatAdd(NatAdd(part(8, 3), part(4, 2)), NatAdd(part(2, 1), part(1, 0)))

\* The digits of d * k, for an int k >= 0.
RECURSIVE NatMul(_, _)
NatMul(d, k) ==
    IF k < 10 THEN MulDigit(d, k)
    ELSE NatAdd(NatMul(d, k \div 10) \o <<0>>, MulDigit(d, k % 10))

\* The decimal (-1)^neg * d * 10^exp, for d with no leading zero.
DecCut(neg, d, exp) ==
    IF d = <<>> THEN DecZero(neg)
    ELSE LET z == TrailingZeros(d) IN
         Dec("finite", neg, SubSeq(d, 1, Len(d) - z), exp + z)

\* The decimal (-1)^neg * digits * 10^exp, exactly.
DecNorm(neg, digits, exp) == DecCut(neg, NatStrip(digits), exp)

\* The digits of two finite decimals over their common exponent.
Aligned(x, y) ==
    LET e == IF x.exp < y.exp THEN x.exp ELSE y.exp
        a0 == x.digits \o Zeros(x.exp - e)
        b0 == y.digits \o Zeros(y.exp - e)
        n == IF Len(a0) < Len(b0) THEN Len(b0) ELSE Len(a0)
    IN
    [a |-> Zeros(n - Len(a0)) \o a0, b |-> Zeros(n - Len(b0)) \o b0, e |-> e]

\* |x| < |y|, for finite decimals.
MagLess(x, y) ==
    IF y.digits = <<>> THEN FALSE
    ELSE IF x.digits = <<>> THEN TRUE
    ELSE FracLess(Aligned(x, y).a, Aligned(x, y).b)

\* x * 2^n exactly, for a finite decimal x and an int n, by steps of 2^7 or
\* of 5^5 / 10^5.
RECURSIVE Scale2(_, _)
Scale2(x, n) ==
    IF x.digits = <<>> \/ n = 0 THEN x
    ELSE IF n > 7
    THEN Scale2(Scale2(x, n \div 2), n - n \div 2)
    ELSE IF n > 0
    THEN DecNorm(x.neg, MulLocal(x.digits, Pow(2, n), n), x.exp)
    ELSE IF n < -5
    THEN Scale2(Scale2(x, 0 - ((0 - n) \div 2)), n + (0 - n) \div 2)
    ELSE DecNorm(x.neg, MulLocal(x.digits, Pow(5, 0 - n), 0 - n), x.exp + n)

Two52 == Scale2(DecNorm(FALSE, <<1>>, 0), 52)
Two53 == Scale2(DecNorm(FALSE, <<1>>, 0), 53)

\* w = x / 2^e on entry; the e with 2^52 <= |w| < 2^53, or MinBinaryExponent
\* where |w| stays below 2^52.
RECURSIVE Settle(_, _)
Settle(w, e) ==
    IF ~MagLess(w, Two53) THEN Settle(Scale2(w, -1), e + 1)
    ELSE IF MagLess(w, Two52) /\ e > MinBinaryExponent
    THEN Settle(Scale2(w, 1), e - 1)
    ELSE [w |-> w, e |-> e]

\* The digits of the integer nearest to |w|, ties to even.
RoundHalfEven(w) ==
    IF w.exp >= 0 THEN w.digits \o Zeros(w.exp)
    ELSE LET k == 0 - w.exp
             padded == Zeros(k - Len(w.digits)) \o w.digits
             int == SubSeq(padded, 1, Len(padded) - k)
             frac == SubSeq(padded, Len(padded) - k + 1, Len(padded))
             odd == int # <<>> /\ int[Len(int)] % 2 = 1
             up == \/ frac[1] > 5
                   \/ frac[1] = 5 /\ (Len(frac) > 1 \/ odd)
         IN
         IF up THEN NatStrip(NatAdd(int, <<1>>))
         ELSE NatStrip(int)

\* The double (-1)^neg * m * 2^e, m being the mantissa as rounded: infinite
\* from 2^1024 up.
DoubleOf(neg, m, e) ==
    IF m = <<>> THEN DecZero(neg)
    ELSE IF e > MaxBinaryExponent
              \/ (e = MaxBinaryExponent /\ m = Two53.digits \o Zeros(Two53.exp))
         THEN DecInf(neg)
    ELSE Scale2(DecNorm(neg, m, 0), e)

\* The double nearest to (-1)^neg * s.w * 2^(s.e), s being settled.
RoundSettled(neg, s) == DoubleOf(neg, RoundHalfEven(s.w), s.e)

\* The double nearest to the finite decimal x, not zero, e0 being a binary
\* exponent near that of x.
RoundFrom(x, e0) == RoundSettled(x.neg, Settle(Scale2(x, 0 - e0), e0))

\* The double nearest to the decimal x: infinite from 2^1024 - 2^970 up, zero
\* up to 2^-1075.
Round(x) ==
    IF x.kind # "finite" \/ x.digits = <<>> THEN x
    ELSE LET order == Len(x.digits) + x.exp
             guess == (order * 3322) \div 1000 - 53
         IN
         IF order > MaxOrder THEN DecInf(x.neg)
         ELSE IF order < MinOrder THEN DecZero(x.neg)
         ELSE RoundFrom(x, IF guess < MinBinaryExponent
                           THEN MinBinaryExponent ELSE guess)

\* float(n), for an int n >= 0.
DecOfInt(n) == Round(DecNorm(FALSE, NatOfInt(n), 0))

\* x * k, for a float x and an int k > 0.
DecMul(x, k) ==
    IF x.kind # "finite" THEN x
    ELSE Round(DecNorm(x.neg, NatMul(x.digits, k), x.exp))

\* x + y exactly, for finite decimals that are not zero, al being
\* Aligned(x, y).
SumAligned(x, y, al) ==
    IF x.neg = y.neg THEN DecNorm(x.neg, NatAdd(al.a, al.b), al.e)
    ELSE IF al.a = al.b THEN DecZero(FALSE)
    ELSE IF FracLess(al.a, al.b)
         THEN DecNorm(y.neg, NatSub(al.b, al.a), al.e)
    ELSE DecNorm(x.neg, NatSub(al.a, al.b), al.e)

\* x + y, for floats.
DecAdd(x, y) ==
    IF x.kind = "nan" \/ y.kind = "nan" THEN DecNaN
    ELSE IF x.kind = "inf"
         THEN IF y.kind = "inf" /\ y.neg # x.neg THEN DecNaN ELSE x
    ELSE IF y.kind = "inf" THEN y
    ELSE IF x.digits = <<>> /\ y.digits = <<>>
         THEN DecZero(x.neg /\ y.neg)
    ELSE IF x.digits = <<>> THEN y
    ELSE IF y.digits = <<>> THEN x
    ELSE Round(SumAligned(x, y, Aligned(x, y)))

\* The float literal 0.01.
Hundredth == Round(DecNorm(FALSE, <<1>>, -2))

\* The vertical tab, which no escape of a string writes.
VT == "\\x0b"

\* The characters str.isspace holds for.
Whitespace == {" ", "\t", "\n", "\r", "\f", VT}

\* s.strip()
RECURSIVE strip(_)
strip(s) ==
    IF s = <<>> THEN s
    ELSE IF s[1] \in Whitespace THEN strip(Tail(s))
    ELSE IF s[Len(s)] \in Whitespace THEN strip(Front(s))
    ELSE s

\* The exponent of a float literal, x being the text after the "e": an
\* optional sign and one digit or more.  [ok, value]; an exponent of more
\* than MaxExponentDigits digits is MaxAbsExp, signed.
float_exponent(x) ==
    LET signed == x # <<>> /\ x[1] \in {"+", "-"}
        ds == IF signed THEN Tail(x) ELSE x
        sig == NatStrip([i \in 1..Len(ds) |-> DigitValue(ds[i])])
        size == IF Len(sig) > MaxExponentDigits THEN MaxAbsExp
                ELSE nat_value(sig)
    IN
    IF ds = <<>> \/ ~AllDigits(ds) THEN [ok |-> FALSE, value |-> 0]
    ELSE [ok |-> TRUE,
          value |-> IF signed /\ x[1] = "-" THEN 0 - size ELSE size]

\* The place of the first c in s, Len(s) + 1 where s holds none.
FirstIndex(s, c) ==
    IF \A i \in 1..Len(s) : s[i] # c THEN Len(s) + 1
    ELSE CHOOSE i \in 1..Len(s) : s[i] = c /\ \A j \in 1..(i - 1) : s[j] # c

\* The float of the digits `all`, the last nfrac of them after the point,
\* with the exponent expo.
float_number(neg, all, nfrac, expo) ==
    IF all = <<>> \/ ~AllDigits(all) \/ ~expo.ok
    THEN [ok |-> FALSE, value |-> DecNaN]
    ELSE IF nfrac > MaxDigits
              \/ Len(NatStrip([i \in 1..Len(all) |-> DigitValue(all[i])]))
                     > MaxDigits
    THEN [ok |-> FALSE, value |-> DecNaN]
    ELSE [ok |-> TRUE,
          value |-> Round(DecNorm(neg,
                                  [i \in 1..Len(all) |-> DigitValue(all[i])],
                                  expo.value - nfrac))]

\* The float of the mantissa mant, whose first point is at p1.
float_mantissa(neg, mant, p1, expo) ==
    float_number(neg, SubSeq(mant, 1, p1 - 1) \o Tail_from(mant, p1 + 1),
                 Len(Tail_from(mant, p1 + 1)), expo)

\* The float of the literal body, whose first "e" is at e1.
float_literal(neg, body, e1) ==
    float_mantissa(neg, SubSeq(body, 1, e1 - 1),
                   FirstIndex(SubSeq(body, 1, e1 - 1), "."),
                   IF e1 > Len(body) THEN [ok |-> TRUE, value |-> 0]
                   ELSE float_exponent(Tail_from(body, e1 + 1)))

\* The float of the text after the sign, in lower case.
float_unsigned(neg, body) ==
    IF body = <<"i", "n", "f">>
           \/ body = <<"i", "n", "f", "i", "n", "i", "t", "y">>
    THEN [ok |-> TRUE, value |-> DecInf(neg)]
    ELSE IF body = <<"n", "a", "n">> THEN [ok |-> TRUE, value |-> DecNaN]
    ELSE float_literal(neg, body, FirstIndex(body, "e"))

\* The float of the text t, which no whitespace begins or ends.
float_stripped(t) ==
    LET signed == t # <<>> /\ t[1] \in {"+", "-"}
        u == IF signed THEN Tail(t) ELSE t
    IN
    float_unsigned(signed /\ t[1] = "-", [i \in 1..Len(u) |-> lower(u[i])])

\* float(s) of Python 2, as [ok, value]; ok is FALSE where it raises
\* ValueError.  It takes whitespace around the text, a sign, then "inf",
\* "infinity" or "nan" in any case, or digits with at most one point and an
\* optional exponent.
float(s) == float_stripped(strip(s))

\* mvc.utils.hms_to_seconds, on floats.
hms_to_seconds(hours, minutes, seconds) ==
    DecAdd(DecAdd(DecMul(hours, 3600), DecMul(minutes, 60)), seconds)

(***************************************************************************)
(* The literals of FFmpegConverterInfoBase.                                 *)
(***************************************************************************)
L_Unknown == <<"U", "n", "k", "n", "o", "w", "n">>
L_Error == <<"E", "r", "r", "o", "r">>
L_ErrorWhileDecoding == <<"E", "r", "r", "o", "r", " ", "w", "h", "i", "l", "e", " ", "d", "e", "c", "o", "d", "i", "n", "g", " ", "s", "t", "r", "e", "a", "m">>
L_Duration == <<"D", "u", "r", "a", "t", "i", "o", "n", ":", " ">>
L_frame == <<"f", "r", "a", "m", "e", "=">>
L_fps == <<" ", "f", "p", "s", "=">>
L_q == <<" ", "q", "=">>
L_size == <<"s", "i", "z", "e", "=">>
L_sp_size == <<" ", "s", "i", "z", "e", "=">>
L_sp_Lsize == <<" ", "L", "s", "i", "z", "e", "=">>
L_time == <<" ", "t", "i", "m", "e", "=">>
L_bitrate == <<" ", "b", "i", "t", "r", "a", "t", "e", "=">>

(***************************************************************************)
(* Regular expressions.  A pattern lit1 .* lit2 .* ... litn, matched with   *)
(* re.match, is a chain: lit1 at position 1 and each later literal at or    *)
(* after the end of the one before.  Every .* is greedy, so of all chains   *)
(* the match is the one whose positions are greatest, the earlier literal   *)
(* deciding first.  The texts of the model hold no newline, which .* would  *)
(* not cross.                                                               *)
(***************************************************************************)
RECURSIVE Chains(_, _, _, _)
Chains(s, lits, k, from) ==
    IF k > Len(lits)
    THEN {<<>>}
    ELSE UNION {{<<i>> \o rest : rest \in Chains(s, lits, k + 1, i + Len(lits[k]))}
                : i \in Occurrences(lits[k], s, from)}

RECURSIVE LexGreaterEq(_, _)
LexGreaterEq(a, b) ==
    \/ a = <<>>
    \/ a[1] > b[1]
    \/ a[1] = b[1] /\ LexGreaterEq(Tail(a), Tail(b))

\* The chains of `lits` in s that start at position 1.
Matches(s, lits) ==
    IF startswith(s, lits[1])
    THEN {<<1>> \o rest : rest \in Chains(s, lits, 2, 1 + Len(lits[1]))}
    ELSE {}

GreedyMatch(s, lits) ==
    CHOOSE m \in Matches(s, lits) : \A n \in Matches(s, lits) : LexGreaterEq(m, n)

\* PROGRESS_RE with and without its optional group (?:frame=.* fps=.* q=.* )
PROGRESS_LONG == <<L_frame, L_fps, L_q, L_sp_size, L_time, L_bitrate>>
PROGRESS_SHORT == <<L_size, L_time, L_bitrate>>
LAST_PROGRESS == <<L_frame, L_fps, L_q, L_sp_Lsize, L_time, L_bitrate>>

\* PROGRESS_RE.match(line): matched, and group(1), the text between the
\* " time=" and the " bitrate=" of the match.
PROGRESS_RE_match(line) ==
    LET lits == IF Matches(line, PROGRESS_LONG) # {} THEN PROGRESS_LONG
                ELSE PROGRESS_SHORT
    IN
    IF Matches(line, lits) = {}
    THEN [matched |-> FALSE, t |-> <<>>]
    ELSE LET m == GreedyMatch(line, lits)
             n == Len(m)
         IN [matched |-> TRUE,
             t |-> SubSeq(line, m[n - 1] + Len(L_time), m[n] - 1)]

\* LAST_PROGRESS_RE.match(line) is not None
LAST_PROGRESS_RE_match(line) == Matches(line, LAST_PROGRESS) # {}

\* DURATION_RE.match(line): \W* takes the leading non-word characters, then
\* "Duration: " and dd:dd:dd.dd; the optional groups that follow never decide
\* the match.  The four groups as ints.
DURATION_RE_match(line) ==
    LET words == {i \in 1..Len(line) : IsWordChar(line[i])}
        k == IF words = {} THEN Len(line) + 1
             ELSE CHOOSE i \in words : \A j \in words : i <= j
        at == k + Len(L_Duration)
        shape == /\ OccursAt(L_Duration, line, k)
                 /\ at + 10 <= Len(line)
                 /\ \A o \in {0, 1, 3, 4, 6, 7, 9, 10} : IsDigit(line[at + o])
                 /\ line[at + 2] = ":" /\ line[at + 5] = ":" /\ line[at + 8] = "."
        two(o) == 10 * DigitValue(line[at + o]) + DigitValue(line[at + o + 1])
    IN
    IF shape
    THEN [matched |-> TRUE, hours |-> two(0), minutes |-> two(3),
          seconds |-> two(6), centi |-> two(9)]
    ELSE [matched |-> FALSE, hours |-> 0, minutes |-> 0, seconds |-> 0,
          centi |-> 0]

(***************************************************************************)
(* FFmpegConverterInfoBase._check_for_errors and process_status_line.       *)
(* A text or None is [none, text].  The outcome of process_status_line is   *)
(* [exc, keys, error, secs]: exc is the exception raised or None; keys are  *)
(* the keys of the dict returned, none when it returned None; error is the  *)
(* value under 'error'; secs is the float under 'duration' or 'progress'    *)
(* (NoSecs where the dict has neither).                                     *)
(***************************************************************************)
NoText == [none |-> TRUE, text |-> <<>>]
Text(s) == [none |-> FALSE, text |-> s]

\* Mutant of _check_for_errors: "Error while decoding stream" is not excepted.
check_for_errors_AnyError(line) ==
    IF startswith(line, L_Unknown) \/ startswith(line, L_Error)
    THEN Text(line)
    ELSE NoText

_check_for_errors(line) ==
    IF startswith(line, L_Unknown) THEN Text(line)
    ELSE IF startswith(line, L_Error)
              /\ ~startswith(line, L_ErrorWhileDecoding)
         THEN Text(line)
         ELSE NoText

NoSecs == Dec("absent", FALSE, <<>>, 0)
Returned(keys, error, secs) ==
    [exc |-> None, keys |-> keys, error |-> error, secs |-> secs]
ReturnedNone == Returned({}, <<>>, NoSecs)
Raised(exc) == [exc |-> exc, keys |-> {}, error |-> <<>>, secs |-> NoSecs]

\* The branch of process_status_line taken when PROGRESS_RE matched, t being
\* match.group(1).
progress_of_floats(colon, fs) ==
    IF \E i \in 1..Len(fs) : ~fs[i].ok
    THEN Raised("ValueError")    \* float() of a part, or of t
    ELSE IF ~colon THEN Returned({"progress"}, <<>>, fs[1].value)
    ELSE IF Len(fs) # 3
    THEN Raised("ValueError")    \* unpacking into hours, minutes, seconds
    ELSE Returned({"progress"}, <<>>,
                  hms_to_seconds(fs[1].value, fs[2].value, fs[3].value))

floats_of(texts) == [i \in 1..Len(texts) |-> float(texts[i])]

progress_of(t) ==
    LET colon == \E i \in 1..Len(t) : t[i] = ":"
        parts == split_colon(t)
    IN
    progress_of_floats(colon,
        floats_of(IF colon
                  THEN SubSeq(parts, 1, IF Len(parts) < 3 THEN Len(parts) ELSE 3)
                  ELSE <<t>>))

process_status_line(line) ==
    LET error == _check_for_errors(line)
        dur == DURATION_RE_match(line)
        prog == PROGRESS_RE_match(line)
    IN
    IF ~error.none /\ error.text # <<>>
    THEN Returned({"finished", "error"}, error.text, NoSecs)
    ELSE IF dur.matched
    THEN Returned({"duration"}, <<>>,
                  hms_to_seconds(DecOfInt(dur.hours), DecOfInt(dur.minutes),
                                 DecAdd(DecOfInt(dur.seconds),
                                        DecMul(Hundredth, dur.centi))))
    ELSE IF prog.matched
    THEN progress_of(prog.t)
    ELSE IF LAST_PROGRESS_RE_match(line)
    THEN Returned({"finished"}, <<>>, NoSecs)
    ELSE ReturnedNone

(***************************************************************************)
(* The status lines of the model: a head, then a progress line, a final     *)
(* summary line, a duration line or other text.                             *)
(***************************************************************************)
Heads ==
    {<<>>, <<"E", "r", "r", "o", "r", " ", "o", "p", "e", "n", "i", "n", "g", " ">>, <<"U", "n", "k", "n", "o", "w", "n", " ">>, <<"E", "r", "r", "o", "r", " ", "w", "h", "i", "l", "e", " ", "d", "e", "c", "o", "d", "i", "n", "g", " ", "s", "t", "r", "e", "a", "m", " ">>,
     <<"f", "r", "a", "m", "e", "=", "1", " ", "f", "p", "s", "=", "2", " ", "q", "=", "3", " ">>, <<" ", " ">>}
Times ==
    {<<"0", "0", ":", "0", "0", ":", "4", "5", ".", "0", "0">>,
     <<"0", ":", "0", "1", ":", "0", "2", ".", "5">>,
     <<"4", "5", ".", "5">>,
     <<"7">>,
     <<"N", "/", "A">>,
     <<"1", ":", "2">>,
     <<"1", ":", "2", ":", "3", ":", "4">>,
     <<"a", ":", "b", ":", "c">>,
     <<>>,
     <<"5", " ", "t", "i", "m", "e", "=", "6">>,
     <<"-", "5", "7", "7", "0", "1", "4", ":", "3", "2", ":", "2", "2", ".", "7", "7">>,
     <<"-", "1">>,
     <<"1", ".", "2", "3", "4">>,
     <<"1", "e", "3">>,
     <<" ", "7">>,
     <<"i", "n", "f">>,
     <<"n", "a", "n">>,
     <<"1", "0", "0", "0", "0", "0", "0", "0", "0", "0", "0", ".", "0", "0">>,
     <<"1", ":", "-", "i", "n", "f", ":", "2", "e", "1">>,
     <<"+", ".", "5", "E", "-", "2", " ">>,
     <<VT, "7">>,
     <<"1", ".", "1", ":", "0", ":", "0">>}
OtherBodies ==
    {<<"D", "u", "r", "a", "t", "i", "o", "n", ":", " ", "0", "0", ":", "0", "1", ":", "3", "0", ".", "5", "0", ",", " ", "s", "t", "a", "r", "t", ":", " ", "0", ".", "0">>,
     <<"D", "u", "r", "a", "t", "i", "o", "n", ":", " ", "0", "0", ":", "0", "0", ":", "0", "1", ".", "1", "4">>,
     <<"D", "u", "r", "a", "t", "i", "o", "n", ":", " ", "N", "/", "A">>,
     <<"h", "e", "l", "l", "o">>}
Lines ==
    {h \o b : h \in Heads, b \in OtherBodies}
    \cup {h \o L_size \o <<"1", "k", "B">> \o L_time \o t \o L_bitrate \o <<"2", "k">>
          : h \in Heads, t \in Times}
    \cup {h \o <<"L", "s", "i", "z", "e", "=", "9", "k", "B">> \o L_time \o t \o L_bitrate \o <<"2", "k">>
          : h \in Heads, t \in Times}

(***************************************************************************)
(* ConverterInfo.finalize.  The outcomes of the three calls it makes are    *)
(* inputs: each succeeds ("ok") or raises; a call on a missing temp_output  *)
(* cannot succeed, and a call given a path the os calls do not take raises  *)
(* a TypeError or a UnicodeEncodeError, which are no EnvironmentError.      *)
(* same_path tells that temp_output and output are one path, which then     *)
(* exists under both names or under neither; link tells that they are two   *)
(* paths to one file.                                                       *)
(***************************************************************************)
MediaTypes == {"format", "video", "audio"}
Extensions == {"mp4", "webm", None}

\* The errors that leave finalize.
QtFastStartError == "EnvironmentError('qtfaststart exception')"
MoveError == "EnvironmentError from shutil.move"
RemoveError == "EnvironmentError from os.remove"
\* An exception of processor.process that is no FastStartException (the
\* IOError of opening a missing temp_output or an unwritable output).
OtherProcessError == "exception of processor.process, not a FastStartException"
\* The exception of shutil.move, and of os.remove, for a path they do not take.
OtherMoveError == "exception of shutil.move, not an EnvironmentError"
OtherRemoveError == "exception of os.remove, not an EnvironmentError"

\* The branch test of finalize.
UsesFastStart(mt, ext) == mt = "format" /\ ext = "mp4"

\* processor.process(temp_output, output): ok, or raises FastStartException,
\* or raises another exception, which the except clause does not catch.
ProcessOutcomes(temp, out_ok) ==
    IF temp /\ out_ok THEN {"ok", "FastStartException", "OtherException"}
    ELSE {"FastStartException", "OtherException"}

\* shutil.move(temp_output, output): ok, or raises an EnvironmentError, or,
\* for a path the os calls do not take, another exception.
MoveOutcomes(temp, temp_ok, out_ok) ==
    IF ~temp_ok \/ ~out_ok THEN {"OtherException"}
    ELSE IF temp THEN {"ok", "EnvironmentError"}
    ELSE {"EnvironmentError"}

\* os.remove(temp_output): ok, or raises an EnvironmentError, or, for a path
\* the os calls do not take, another exception.
RemoveOutcomes(temp, temp_ok) ==
    IF ~temp_ok THEN {"OtherException"}
    ELSE IF temp THEN {"ok", "EnvironmentError"}
    ELSE {"EnvironmentError"}

PrimaryOutcomes(faststart, temp, temp_ok, out_ok) ==
    IF faststart THEN ProcessOutcomes(temp, out_ok)
    ELSE MoveOutcomes(temp, temp_ok, out_ok)

\* The exception that leaves the first if/else of finalize uncaught (None:
\* control reaches "if needs_remove").
Uncaught(faststart, primary) ==
    IF primary # "OtherException" THEN None
    ELSE IF faststart THEN OtherProcessError
    ELSE OtherMoveError

\* Mutant of PendingError: the except clauses do not keep the error.
PendingError_NotKept(faststart, primary) == None

\* err after the first if/else of finalize.
PendingError(faststart, primary) ==
    IF faststart
    THEN IF primary = "FastStartException" THEN QtFastStartError ELSE None
    ELSE IF primary = "EnvironmentError" THEN MoveError ELSE None

\* Mutant of NeedsRemove: needs_remove is set only where the step failed.
NeedsRemove_OnlyOnFailure(faststart, primary) == primary # "ok"

\* needs_remove after the first if/else of finalize.
NeedsRemove(faststart, primary) ==
    IF faststart THEN TRUE ELSE primary = "EnvironmentError"

\* The outcomes of the removal: "skipped" where os.remove is not called.
RemovalOutcomes(faststart, primary, temp, temp_ok) ==
    IF Uncaught(faststart, primary) # None THEN {"skipped"}
    ELSE IF NeedsRemove(faststart, primary) THEN RemoveOutcomes(temp, temp_ok)
    ELSE {"skipped"}

\* What the part of finalize after the first if/else raises (None: it
\* returns), given err and the outcome of the removal.
RaisedError(err, removal) ==
    IF removal = "OtherException" THEN OtherRemoveError
    ELSE IF removal = "EnvironmentError" /\ err # None THEN err
    ELSE None

\* temp_output exists after the first if/else: only a successful move to
\* another file takes it (os.rename does nothing to two names of one file,
\* and puts the file in the place of a symbolic link to it).
TempAfterPrimary(faststart, primary, temp, same, lnk) ==
    IF ~faststart /\ primary = "ok" /\ ~same /\ lnk # "hard" THEN FALSE
    ELSE temp

\* link after finalize: a successful move replaces the symbolic link, and
\* os.remove takes one of the two names of the file.
LinkAfter(faststart, primary, removal, lnk) ==
    IF ~faststart /\ primary = "ok" /\ lnk = "symlink" THEN "none"
    ELSE IF removal = "ok" /\ lnk = "hard" THEN "none"
    ELSE lnk

\* Whether output exists after the first if/else, temp1 telling whether
\* temp_output does.  A move that fails may have copied temp_output to output
\* before it failed to unlink temp_output.
OutputsAfterPrimary(faststart, primary, temp, out, same, temp1) ==
    IF same THEN {temp1}
    ELSE IF primary = "ok" THEN {TRUE}
    ELSE IF ~faststart /\ temp THEN {out, TRUE}
    ELSE {out}

(***************************************************************************)
(* ConverterInfo.__init__: the identifier of a converter is its name        *)
(* without the characters NON_WORD_CHARS matches, in lower case.            *)
(***************************************************************************)
\* [^a-zA-Z0-9] does not match c.
IsAlnum(c) == c \in Range(Digits) \cup Range(UpperCase) \cup Range(LowerCase)

RECURSIVE identifier_of(_)
identifier_of(name) ==
    IF name = <<>> THEN <<>>
    ELSE (IF IsAlnum(Head(name)) THEN <<lower(Head(name))>> ELSE <<>>)
         \o identifier_of(Tail(name))

\* A converter object: oid tells two objects of the same name apart.
ConverterInfo(oid, name) ==
    [oid |-> oid, name |-> name, identifier |-> identifier_of(name)]

P1 == ConverterInfo(1, <<"M", "P", "4">>)
P2 == ConverterInfo(2, <<"m", "p", "-", "4">>)
P3 == ConverterInfo(3, <<"W", "e", "b", "M">>)
P4 == ConverterInfo(4, <<"W", "e", "b", "_", "M", " ", "(", "H", "D", ")">>)
Profiles == {P1, P2, P3, P4}

(***************************************************************************)
(* ConverterManager.  An entry of a converters list is a converter or a     *)
(* tuple (brand, [converters]); a converter script (a unit) raises when     *)
(* executed, or defines no 'converters', or defines a list of entries.      *)
(***************************************************************************)
Bare(p) == [tuple |-> FALSE, brand |-> None, realconverters |-> <<p>>]
Grouped(brand, ps) == [tuple |-> TRUE, brand |-> brand, realconverters |-> ps]

UnitRaises == [kind |-> "raises", converters |-> <<>>]
UnitDefinesNothing == [kind |-> "no converters", converters |-> <<>>]
UnitDefines(entries) == [kind |-> "converters", converters |-> entries]

Brands == {"apple", "android", None}

BuiltinLists ==
    {<<>>,
     <<Grouped("apple", <<P1>>), Bare(P3)>>,
     <<Bare(P1)>>}

Units ==
    {UnitRaises,
     UnitDefinesNothing,
     UnitDefines(<<Bare(P2)>>),
     UnitDefines(<<Grouped("apple", <<>>)>>),
     UnitDefines(<<Grouped("apple", <<P2, P3>>)>>),
     UnitDefines(<<Bare(P4), Grouped("android", <<P2>>)>>)}

RECURSIVE SeqsUpTo(_, _)
SeqsUpTo(S, n) ==
    IF n = 0 THEN {<<>>}
    ELSE SeqsUpTo(S, n - 1)
         \cup {Append(q, x) : q \in {r \in SeqsUpTo(S, n - 1) : Len(r) = n - 1},
                              x \in S}

\* What resources.converter_scripts() may hold.
Batches == SeqsUpTo(Units, MaxUnits)

\* d[k] = v
Put(d, k, v) == [x \in DOMAIN d \cup {k} |-> IF x = k THEN v ELSE d[x]]

\* d.setdefault(k, []).append(v)
SetDefaultAppend(d, k, v) ==
    Put(d, k, Append(IF k \in DOMAIN d THEN d[k] ELSE <<>>, v))

\* The manager as a record, with its history.
Manager ==
    [converters |-> converters, brand_map |-> brand_map,
     brand_rmap |-> brand_rmap, inserted |-> inserted, named |-> named]

add_converter(m, converter) ==
    [m EXCEPT !.converters = Put(@, converter.identifier, converter),
              !.inserted = Append(@, converter)]

\* The three statements run for one converter under its brand (None for a
\* converter that is not in a tuple).
load_one(m, brand, converter) ==
    add_converter(
        [m EXCEPT !.brand_rmap = Put(@, converter, brand),
                  !.brand_map = SetDefaultAppend(@, brand, converter)],
        converter)

RECURSIVE load_real(_, _, _)
load_real(m, brand, realconverters) ==
    IF realconverters = <<>> THEN m
    ELSE load_real(load_one(m, brand, Head(realconverters)), brand,
                   Tail(realconverters))

\* The body of the loop over a converters list.
RECURSIVE load_entries(_, _)
load_entries(m, entries) ==
    IF entries = <<>> THEN m
    ELSE LET e == Head(entries) IN
         load_entries(
             load_real([m EXCEPT !.named = @ \cup {e.brand}], e.brand,
                       e.realconverters),
             Tail(entries))

load_simple_converters(m) == load_entries(m, basicconverters)

\* load_converters(converters): the manager it leaves and whether it raised.
\* execfile of a unit that raises ends the call there.
RECURSIVE load_converters(_, _)
load_converters(m, units) ==
    IF units = <<>> THEN [manager |-> m, raised |-> FALSE]
    ELSE LET u == Head(units) IN
         IF u.kind = "raises" THEN [manager |-> m, raised |-> TRUE]
         ELSE IF u.kind = "converters"
         THEN load_converters(load_entries(m, u.converters), Tail(units))
         ELSE load_converters(m, Tail(units))

\* brand_to_converters(brand): a list or None, as [none, list].
brand_to_converters(bm, brand) ==
    IF brand \in DOMAIN bm THEN [none |-> FALSE, list |-> bm[brand]]
    ELSE [none |-> TRUE, list |-> <<>>]

guess_vars == <<bitrate, duration, size_guess>>
finalize_vars == <<media_type, extension, same_path, link, temp_path_ok,
                   output_path_ok, temp_exists, output_exists, calls>>
status_vars == <<status_line, status>>
registry_vars == <<converters, brand_map, brand_rmap, basicconverters,
                   inserted, named, last_call, ops>>
vars == <<guess_vars, finalize_vars, status_vars, registry_vars>>

(***************************************************************************)
(* The actions: one per call.                                               *)
(***************************************************************************)
Finalize ==
    /\ Len(calls) < MaxCalls
    /\ LET faststart == UsesFastStart(media_type, extension) IN
       \E primary \in PrimaryOutcomes(faststart, temp_exists, temp_path_ok,
                                       output_path_ok) :
         LET err == PendingError(faststart, primary)
             uncaught == Uncaught(faststart, primary)
             temp1 == TempAfterPrimary(faststart, primary, temp_exists,
                                       same_path, link)
         IN
         \E out1 \in OutputsAfterPrimary(faststart, primary, temp_exists,
                                         output_exists, same_path, temp1) :
         \E removal \in RemovalOutcomes(faststart, primary, temp1,
                                         temp_path_ok) :
           LET temp2 == IF removal = "ok" THEN FALSE ELSE temp1 IN
           /\ temp_exists' = temp2
           /\ link' = LinkAfter(faststart, primary, removal, link)
           /\ output_exists' = (IF same_path THEN temp2 ELSE out1)
           /\ calls' = Append(calls,
                 [faststart |-> faststart,
                  temp_before |-> temp_exists,
                  primary |-> primary,
                  err |-> err,
                  removal |-> removal,
                  temp_after |-> temp2,
                  raised |-> IF uncaught # None THEN uncaught
                             ELSE RaisedError(err, removal)])
    /\ UNCHANGED <<media_type, extension, same_path, temp_path_ok,
                   output_path_ok>>
    /\ UNCHANGED <<guess_vars, status_vars, registry_vars>>

GetOutputSizeGuess ==
    /\ size_guess = Uncalled
    /\ size_guess' = get_output_size_guess(bitrate, duration)
    /\ UNCHANGED <<bitrate, duration>>
    /\ UNCHANGED <<finalize_vars, status_vars, registry_vars>>

\* process_status_line on each line of the model.
StatusOfLine == [l \in Lines |-> process_status_line(l)]

ProcessStatusLine ==
    /\ \E l \in Lines :
          /\ status_line' = l
          /\ status' = StatusOfLine[l]
    /\ UNCHANGED <<guess_vars, finalize_vars, registry_vars>>

\* The manager's variables after a call that left the manager m.
Becomes(m, call) ==
    /\ converters' = m.converters
    /\ brand_map' = m.brand_map
    /\ brand_rmap' = m.brand_rmap
    /\ inserted' = m.inserted
    /\ named' = m.named
    /\ last_call' = call
    /\ ops' = ops + 1
    /\ UNCHANGED basicconverters
    /\ UNCHANGED <<guess_vars, finalize_vars, status_vars>>

CallRecord(op, units, raised, first_external) ==
    [op |-> op, units |-> units, raised |-> raised,
     first |-> Len(inserted) + 1, first_external |-> first_external]

AddConverter ==
    /\ ops < MaxOps
    /\ \E p \in Profiles :
          Becomes(add_converter(Manager, p),
                  CallRecord("add_converter", <<>>, FALSE, 0))

LoadSimpleConverters ==
    /\ ops < MaxOps
    /\ Becomes(load_simple_converters(Manager),
               CallRecord("load_simple_converters", <<>>, FALSE, 0))

LoadConverters ==
    /\ ops < MaxOps
    /\ \E units \in Batches :
          LET r == load_converters(Manager, units) IN
          Becomes(r.manager,
                  CallRecord("load_converters", units, r.raised,
                             Len(inserted) + 1))

\* startup(): load_simple_converters(), then load_converters(the scripts).
Startup ==
    /\ ops < MaxOps
    /\ \E units \in Batches :
          LET m1 == load_simple_converters(Manager)
              r == load_converters(m1, units)
          IN
          Becomes(r.manager,
                  CallRecord("startup", units, r.raised, Len(m1.inserted) + 1))


IdleGuess == bitrate = PyNone /\ duration = PyNone /\ size_guess = Uncalled

IdleStatus == status_line = <<>> /\ status = ReturnedNone

\* ConverterManager.__init__, before any call.
NewManager ==
    /\ converters = <<>>
    /\ brand_map = <<>>
    /\ brand_rmap = <<>>
    /\ inserted = <<>>
    /\ named = {}
    /\ last_call = [op |-> "__init__", units |-> <<>>, raised |-> FALSE,
                    first |-> 1, first_external |-> 0]
    /\ ops = 0

IdleRegistry == NewManager /\ basicconverters = <<>>

IdleFinalize ==
    /\ media_type = None /\ extension = None /\ same_path = FALSE
    /\ link = "none"
    /\ temp_path_ok = TRUE /\ output_path_ok = TRUE
    /\ temp_exists = FALSE /\ output_exists = FALSE
    /\ calls = <<>>

InitGuess ==
    /\ bitrate \in Bitrates
    /\ duration \in Durations
    /\ size_guess = Uncalled
    /\ IdleFinalize /\ IdleStatus /\ IdleRegistry

InitFinalize ==
    /\ media_type \in MediaTypes
    /\ extension \in Extensions
    /\ same_path \in BOOLEAN
    /\ link \in (IF same_path THEN {"none"} ELSE {"none", "hard", "symlink"})
    /\ temp_path_ok \in (IF link = "none" THEN BOOLEAN ELSE {TRUE})
    /\ output_path_ok \in (IF same_path THEN {temp_path_ok}
                           ELSE IF link = "none" THEN BOOLEAN
                           ELSE {TRUE})
    /\ temp_exists \in (IF link = "hard" THEN {TRUE}
                        ELSE IF temp_path_ok THEN BOOLEAN
                        ELSE {FALSE})
    /\ output_exists \in (IF same_path THEN {temp_exists}
                          ELSE IF link # "none" THEN {TRUE}
                          ELSE IF output_path_ok THEN BOOLEAN
                          ELSE {FALSE})
    /\ calls = <<>>
    /\ IdleGuess /\ IdleStatus /\ IdleRegistry

InitStatus == IdleStatus /\ IdleGuess /\ IdleFinalize /\ IdleRegistry

InitRegistry ==
    /\ NewManager
    /\ basicconverters \in BuiltinLists
    /\ IdleGuess /\ IdleFinalize /\ IdleStatus

NextGuess == GetOutputSizeGuess
NextFinalize == Finalize
NextStatus == ProcessStatusLine
NextRegistry == AddConverter \/ LoadSimpleConverters \/ LoadConverters \/ Startup

SpecGuess == InitGuess /\ [][NextGuess]_vars
SpecFinalize == InitFinalize /\ [][NextFinalize]_vars
SpecStatus == InitStatus /\ [][NextStatus]_vars
SpecRegistry == InitRegistry /\ [][NextRegistry]_vars

(***************************************************************************)
(* Claims about get_output_size_guess (SpecGuess).                          *)
(***************************************************************************)

\* C10 (as stated): get_output_size_guess returns None exactly when the
\* bitrate or the duration is None, and otherwise exactly bitrate*duration/8:
\* a duration of 0 gives 0, and a product that is no multiple of 8 is not
\* rounded.
C10_GuessIsExact ==
    size_guess # Uncalled =>
        /\ (size_guess = PyNone) <=> (bitrate = PyNone \/ duration = PyNone)
        /\ size_guess # PyNone =>
               8 * 64 * size_guess.n64 = bitrate.n64 * duration.n64

(***************************************************************************)
(* Claims about finalize (SpecFinalize).                                    *)
(***************************************************************************)
Call(i) == calls[i]
CallIds == 1..Len(calls)

\* C1 (as stated): whenever the remux or the move fails, finalize raises,
\* whether the removal of temp_output then succeeds or fails.
C1_FailureAlwaysRaised ==
    \A i \in CallIds : Call(i).primary # "ok" => Call(i).raised # None

\* C2 (as stated): an error that leaves finalize is the pending error that
\* was captured from the failed remux or the failed move, never the error of
\* the removal; a failed removal with no pending error raises nothing.
C2_OnlyPendingErrorEscapes ==
    \A i \in CallIds :
        /\ Call(i).raised # None =>
              /\ Call(i).err # None
              /\ Call(i).raised = Call(i).err
              /\ Call(i).raised \notin {RemoveError, OtherRemoveError}
        /\ (Call(i).removal \in {"EnvironmentError", "OtherException"}
                /\ Call(i).err = None)
              => Call(i).raised = None

\* C3 (as stated): on the success path, for every profile, no removal of
\* temp_output is attempted and nothing is raised.
C3_SuccessNoRemoval ==
    \A i \in CallIds :
        Call(i).primary = "ok" =>
            Call(i).removal = "skipped" /\ Call(i).raised = None

\* C3 (amended): on the success path nothing is raised; the removal of
\* temp_output is skipped in the move branch and attempted in the remux branch.
C3_SuccessNoRaise ==
    \A i \in CallIds :
        Call(i).primary = "ok" =>
            /\ Call(i).raised = None
            /\ (Call(i).removal = "skipped") <=> ~Call(i).faststart

\* C3 witness: a remux that succeeded, followed by a failed removal, returned.
C3_Witness ==
    \E i \in CallIds :
        /\ Call(i).faststart /\ Call(i).primary = "ok"
        /\ Call(i).removal = "EnvironmentError" /\ Call(i).raised = None

\* A call that succeeded, followed by a call that found temp_output missing.
Repeated(i) ==
    /\ i > 1
    /\ Call(i - 1).primary = "ok" /\ Call(i - 1).raised = None
    /\ ~Call(i).temp_before

\* C4 (as stated): a second finalize after a successful first one, temp_output
\* being gone, does not raise.
C4_RepeatDoesNotRaise ==
    \A i \in CallIds : Repeated(i) => Call(i).raised = None

\* C4 (amended): a second finalize after a successful first one, temp_output
\* being gone, raises, in the remux branch and in the move branch: the pending
\* error, or the exception of the remux that finalize does not catch.
C4_RepeatRaises ==
    \A i \in CallIds :
        Repeated(i) =>
            /\ Call(i).raised # None
            /\ Call(i).raised \in {Call(i).err, OtherProcessError}
            /\ ~Call(i).temp_after

\* C4 witness: such a second call happened in the remux branch, where the
\* first call removed temp_output itself.
C4_Witness ==
    \E i \in CallIds :
        /\ Repeated(i) /\ Call(i).faststart
        /\ Call(i - 1).removal = "ok" /\ Call(i).raised # None

(***************************************************************************)
(* Claims about process_status_line (SpecStatus).                           *)
(***************************************************************************)

\* C5 (as stated): process_status_line never raises, whatever the line.
C5_NeverRaises == status.exc = None

\* The line is one that the error rule of the specification names.
IsErrorLine(l) ==
    \/ startswith(l, L_Unknown)
    \/ startswith(l, L_Error) /\ ~startswith(l, L_ErrorWhileDecoding)

\* The line holds the shape of a progress or final summary line.
HoldsProgressShape(l) ==
    /\ Occurrences(L_size, l, 1) # {}
    /\ Occurrences(L_time, l, 1) # {}
    /\ Occurrences(L_bitrate, l, 1) # {}

\* C6: a line that begins with 'Unknown', or with 'Error' but not with 'Error
\* while decoding stream', yields exactly {finished: True, error: the line},
\* whatever else the line holds; a line that begins with 'Error while decoding
\* stream' yields no event with an error.
C6_ErrorsFirst ==
    /\ IsErrorLine(status_line) =>
           status = Returned({"finished", "error"}, status_line, NoSecs)
    /\ startswith(status_line, L_ErrorWhileDecoding) =>
           "error" \notin status.keys

\* C6 witness: an error line that also holds a progress shape gave the error.
C6_Witness ==
    /\ IsErrorLine(status_line)
    /\ HoldsProgressShape(status_line)
    /\ status.keys = {"finished", "error"}
    /\ status.error = status_line

(***************************************************************************)
(* Claims about ConverterManager (SpecRegistry).                            *)
(***************************************************************************)
InsertedIds == {inserted[i].identifier : i \in DOMAIN inserted}

\* The converter given last to add_converter under an identifier.
LastInserted(id) ==
    LET at == {i \in DOMAIN inserted : inserted[i].identifier = id} IN
    inserted[CHOOSE i \in at : \A j \in at : j <= i]

\* The profiles the registry stores: those of converters, of the lists of
\* brand_map and of the keys of brand_rmap.
StoredProfiles ==
    Range(converters)
    \cup UNION {Range(brand_map[b]) : b \in DOMAIN brand_map}
    \cup DOMAIN brand_rmap

\* C7 (as stated): after any sequence of add_converter calls and loads, the
\* registry stores exactly one profile per identifier, the one inserted last
\* under it; a profile that another of the same identifier replaced is stored
\* no longer, in converters, in brand_map or in brand_rmap.
C7_LastInsertedWins ==
    /\ DOMAIN converters = InsertedIds
    /\ \A id \in DOMAIN converters :
          /\ converters[id] = LastInserted(id)
          /\ converters[id].identifier = id
    /\ \A p \in StoredProfiles :
          /\ p.identifier \in DOMAIN converters
          /\ converters[p.identifier] = p

\* The converters that the units of a batch define.
EntryConverters(e) == Range(e.realconverters)
UnitConverters(u) ==
    UNION {EntryConverters(u.converters[i]) : i \in DOMAIN u.converters}
BatchConverters(units) == UNION {UnitConverters(units[i]) : i \in DOMAIN units}

\* C8 (as stated): load_converters skips a unit that raises or defines no
\* converters: no error escapes and every converter of every unit that
\* defines some is loaded.
C8_BatchSurvivesBadUnit ==
    last_call.op \in {"load_converters", "startup"} =>
        /\ ~last_call.raised
        /\ BatchConverters(last_call.units) \subseteq DOMAIN brand_rmap

\* C9 (as stated): brand_to_converters returns None exactly for the brands no
\* loaded entry named, and a list for every brand an entry named, an entry
\* with an empty list included.  (A converter outside a tuple is taken to name
\* the brand None, under which the code files it.)
C9_NoneIffNotNamed ==
    \A b \in Brands : brand_to_converters(brand_map, b).none <=> b \notin named

====
